---- MODULE Spec2Model ----
(***************************************************************************)
(* A model of thriftproxy.py (Python 2): a tracing proxy for Thrift        *)
(* services.  The model covers service introspection (get_interface,       *)
(* get_service_methods), proxy construction (proxy_wrapper,                *)
(* make_proxy_methods, make_proxy_type, make_proxy), the connection scope  *)
(* make_client, the startup sequence of main and the forwarding delegate   *)
(* wrapper with its trace output.                                          *)
(*                                                                         *)
(* Python indices are 0-based, TLA+ sequences 1-based: Python's t[i] is    *)
(* t[i + 1] here.  Names are sequences of characters so that the regular   *)
(* expression MAGIC_METHOD_RE and the ordering of dir() can be computed.   *)
(***************************************************************************)
EXTENDS Integers, Sequences, FiniteSets

(***************************************************************************)
(* Bounds of the model.                                                    *)
(***************************************************************************)
MaxCalls == 2
MaxArgs == 2

(***************************************************************************)
(* Names, values and errors.                                               *)
(***************************************************************************)
n_echo == <<"e">>
n_ping == <<"p">>
n_priv == <<"_", "_", "a">>
n_doc == <<"_", "_", "d", "_", "_">>
n_module == <<"_", "_", "m", "_", "_">>

NoneV == "None"
ArgValues == {"hi"}
Results == {"hi", NoneV}
BackendErrors == {"TException"}

\* ord() of the characters used in names
Ord(c) ==
  CASE c = "_" -> 95
    [] c = "a" -> 97
    [] c = "d" -> 100
    [] c = "e" -> 101
    [] c = "m" -> 109
    [] c = "p" -> 112

\* MAGIC_METHOD_RE = ^__.+?__$ : two underscores, at least one character,
\* two underscores
MAGIC_METHOD_RE(x) ==
  /\ Len(x) >= 5
  /\ x[1] = "_" /\ x[2] = "_"
  /\ x[Len(x) - 1] = "_" /\ x[Len(x)] = "_"

RECURSIVE StrLess(_, _)
\* Python's < on str: lexicographic on character codes
StrLess(a, b) ==
  IF a = <<>> THEN b # <<>>
  ELSE IF b = <<>> THEN FALSE
  ELSE IF Ord(Head(a)) # Ord(Head(b)) THEN Ord(Head(a)) < Ord(Head(b))
  ELSE StrLess(Tail(a), Tail(b))

RECURSIVE Dir(_)
\* dir(obj): the attribute names as a sorted list
Dir(attrs) ==
  IF attrs = {} THEN <<>>
  ELSE LET m == CHOOSE x \in attrs : \A y \in attrs \ {x} : StrLess(x, y)
       IN <<m>> \o Dir(attrs \ {m})

(***************************************************************************)
(* Generated Thrift code, as the proxy sees it.                            *)
(* A thrift_spec is a tuple indexed by field id: index 0 and the gaps      *)
(* between field ids hold None, the others (id, type, name, ...).          *)
(***************************************************************************)
NoneEntry == [isNone |-> TRUE, fid |-> 0, name |-> ""]
Field(i, nm) == [isNone |-> FALSE, fid |-> i, name |-> nm]

\* a module attribute <method>_args
ArgsClass(spec) == [present |-> TRUE, hasSpec |-> TRUE, thrift_spec |-> spec]
ArgsNoSpec == [present |-> TRUE, hasSpec |-> FALSE, thrift_spec |-> <<>>]
ArgsAbsent == [present |-> FALSE, hasSpec |-> FALSE, thrift_spec |-> <<>>]

spec_echo == <<NoneEntry, Field(1, "message")>>
spec_two == <<NoneEntry, Field(1, "a"), Field(2, "b")>>
spec_gap == <<NoneEntry, Field(1, "a"), NoneEntry, Field(3, "b")>>
spec_none == <<>>

NoDoc == "NoDoc"

\* A class: its __name__, its dir(), the <method>_args of its defining
\* module and the __doc__ of its methods.
Class(nm, attrs, args, docs) ==
  [name |-> nm, attrs |-> attrs, args |-> args, docs |-> docs]

IfaceOf(attrs, args, docs) == Class("Iface", attrs, args, docs)

AllArgs(s) == [x \in {n_echo, n_ping, n_priv} |-> ArgsClass(s)]
AllDocs == [x \in {n_echo, n_ping, n_priv} |-> "Parameters"]

\* A loaded service module: the Client class (old-style or new-style), its
\* __bases__, and the Iface they lead to.
Service(nm, cls, newStyle, bases) ==
  [name |-> nm, className |-> cls, newStyle |-> newStyle, bases |-> bases]

EchoIface == IfaceOf({n_doc, n_module, n_echo}, AllArgs(spec_echo), AllDocs)
CalcIface ==
  IfaceOf({n_doc, n_module, n_echo, n_ping, n_priv},
          [AllArgs(spec_two) EXCEPT ![n_ping] = ArgsClass(spec_none)],
          AllDocs)
GapIface == IfaceOf({n_doc, n_module, n_echo}, AllArgs(spec_gap), AllDocs)
NoArgsIface ==
  IfaceOf({n_doc, n_module, n_echo, n_ping},
          [AllArgs(spec_echo) EXCEPT ![n_ping] = ArgsAbsent], AllDocs)
NoSpecIface ==
  IfaceOf({n_doc, n_module, n_echo, n_ping},
          [AllArgs(spec_echo) EXCEPT ![n_echo] = ArgsNoSpec], AllDocs)
NoDocIface ==
  IfaceOf({n_doc, n_module, n_echo, n_ping},
          [AllArgs(spec_echo) EXCEPT ![n_ping] = ArgsClass(spec_none)],
          [AllDocs EXCEPT ![n_ping] = NoDoc])
OtherBase == Class("Base", {n_doc, n_module, n_echo}, AllArgs(spec_echo), AllDocs)

Services ==
  { Service("Echo", "Client", FALSE, <<EchoIface>>),
    Service("Calc", "Client", FALSE, <<OtherBase, CalcIface>>),
    Service("Gap", "Client", FALSE, <<GapIface>>),
    Service("NoArgs", "Client", FALSE, <<NoArgsIface>>),
    Service("NoSpec", "Client", FALSE, <<NoSpecIface>>),
    Service("NoDoc", "Client", FALSE, <<NoDocIface>>),
    Service("NoIface", "Client", FALSE, <<OtherBase>>),
    Service("NoBases", "Client", FALSE, <<>>),
    Service("NewStyle", "Client", TRUE, <<EchoIface>>),
    Service("IsIface", "Iface", FALSE, <<>>) }

\* the instance of a class named Iface that is passed as the client: its dir()
SelfIface == IfaceOf({n_doc, n_module, n_echo}, AllArgs(spec_echo), AllDocs)

NoClass == Class("", {}, AllArgs(spec_none), AllDocs)

(***************************************************************************)
(* Introspection.  A call that can raise yields a record whose err field   *)
(* is "none" or the name of the exception.                                 *)
(***************************************************************************)
\* next(ifilter(lambda x: x.__name__ == 'Iface', class_obj.__bases__)):
\* the first base named Iface; next() of an exhausted iterator raises
\* StopIteration
FirstIface(bases) ==
  LET hits == SelectSeq(bases, LAMBDA b : b.name = "Iface")
  IN IF hits = <<>> THEN [err |-> "StopIteration", iface |-> NoClass]
     ELSE [err |-> "none", iface |-> hits[1]]

get_interface(client) ==
  IF client.newStyle
  THEN [err |-> "AssertionError", iface |-> NoClass]
  ELSE IF client.className = "Iface"
  THEN [err |-> "none", iface |-> SelfIface]
  ELSE FirstIface(client.bases)

RECURSIVE EnumerateMethods_Skipping(_, _)
\* an enumeration that passes over the methods without an argument schema
EnumerateMethods_Skipping(names, interface) ==
  IF names = <<>> THEN [items |-> <<>>, err |-> "none"]
  ELSE LET x == Head(names)
           rest == EnumerateMethods_Skipping(Tail(names), interface)
           a == interface.args[x]
       IN IF MAGIC_METHOD_RE(x) THEN rest
          ELSE IF ~a.present \/ ~a.hasSpec THEN rest
          ELSE [items |-> <<[name |-> x, spec |-> a.thrift_spec]>>
                          \o rest.items,
                err |-> rest.err]

RECURSIVE EnumerateMethods(_, _)
\* the loop of get_service_methods over dir(interface): the pairs yielded
\* before the loop ends or getattr raises AttributeError
EnumerateMethods(names, interface) ==
  IF names = <<>> THEN [items |-> <<>>, err |-> "none"]
  ELSE LET x == Head(names)
       IN IF MAGIC_METHOD_RE(x) THEN EnumerateMethods(Tail(names), interface)
          ELSE LET a == interface.args[x]
               IN IF ~a.present \/ ~a.hasSpec
                  THEN [items |-> <<>>, err |-> "AttributeError"]
                  ELSE LET rest == EnumerateMethods(Tail(names), interface)
                       IN [items |-> <<[name |-> x, spec |-> a.thrift_spec]>>
                                       \o rest.items,
                           err |-> rest.err]

\* the generator get_service_methods(client): what it yields and the
\* exception that ends it ("none": it returns)
get_service_methods(client) ==
  LET i == get_interface(client)
  IN IF i.err # "none" THEN [items |-> <<>>, err |-> i.err]
     ELSE EnumerateMethods(Dir(i.iface.attrs), i.iface)

\* What a for statement (or dict()) sees of a generator: in Python 2 a
\* StopIteration raised inside the generator's body leaves next() like the
\* generator's normal end.
Iterate(gen) ==
  [items |-> gen.items,
   err |-> IF gen.err = "StopIteration" THEN "none" ELSE gen.err]

\* proxy_wrapper(method, args_thrift_spec): the wrapper closure; setting
\* __doc__ concatenates method.__doc__, a TypeError when it is None
proxy_wrapper(method, args_thrift_spec) ==
  IF method.doc = NoDoc
  THEN [err |-> "TypeError", name |-> method.name, spec |-> args_thrift_spec,
        im_self |-> method.im_self]
  ELSE [err |-> "none", name |-> method.name, spec |-> args_thrift_spec,
        im_self |-> method.im_self]

\* getattr(client, method_name): the bound method of the backend client,
\* im_self the client it is bound to
BoundMethod(client, method_name) ==
  LET i == get_interface(client)
  IN [name |-> method_name, doc |-> i.iface.docs[method_name],
      im_self |-> client.name]

RECURSIVE WrapAll(_, _)
WrapAll(client, items) ==
  IF items = <<>> THEN [items |-> <<>>, err |-> "none"]
  ELSE LET w == proxy_wrapper(BoundMethod(client, Head(items).name),
                              Head(items).spec)
       IN IF w.err # "none" THEN [items |-> <<>>, err |-> w.err]
          ELSE LET rest == WrapAll(client, Tail(items))
               IN [items |-> <<w>> \o rest.items, err |-> rest.err]

\* the generator make_proxy_methods(client)
make_proxy_methods(client) ==
  LET g == Iterate(get_service_methods(client))
      w == WrapAll(client, g.items)
  IN IF w.err # "none" THEN w
     ELSE [items |-> w.items, err |-> g.err]

\* dict(pairs): a mapping from the keys to their (last) value
Dict(pairs) ==
  [k \in {pairs[i].name : i \in 1..Len(pairs)} |->
     LET i == CHOOSE j \in 1..Len(pairs) :
                 /\ pairs[j].name = k
                 /\ \A l \in (j + 1)..Len(pairs) : pairs[l].name # k
     IN pairs[i]]

EmptyDict == Dict(<<>>)

\* make_proxy_type(client) and make_proxy(client): the method dictionary of
\* the type Proxy, or the exception that dict() let through
make_proxy_type(client) ==
  LET g == Iterate(make_proxy_methods(client))
  IN IF g.err # "none" THEN [err |-> g.err, methods |-> EmptyDict]
     ELSE [err |-> "none", methods |-> Dict(g.items)]

make_proxy(client) == make_proxy_type(client)

(***************************************************************************)
(* The trace text of a call.  Text is a sequence of tokens.                *)
(***************************************************************************)
\* repr(value)
Repr(v) == IF v = NoneV THEN <<"None">> ELSE <<"'", v, "'">>

RECURSIVE Join(_, _)
\* sep.join(items)
Join(items, sep) ==
  IF items = <<>> THEN <<>>
  ELSE IF Len(items) = 1 THEN items[1]
  ELSE items[1] \o <<sep>> \o Join(Tail(items), sep)

RECURSIVE VarargsGen_Unshifted(_, _, _)
\* a varargs_gen that labels the argument at index x with args_thrift_spec[x]
VarargsGen_Unshifted(args_thrift_spec, varargs, x) ==
  IF x >= Len(varargs) THEN [err |-> "none", items |-> <<>>]
  ELSE IF x + 1 > Len(args_thrift_spec)
  THEN [err |-> "IndexError", items |-> <<>>]
  ELSE IF args_thrift_spec[x + 1].isNone
  THEN [err |-> "TypeError", items |-> <<>>]
  ELSE LET rest == VarargsGen_Unshifted(args_thrift_spec, varargs, x + 1)
       IN [err |-> rest.err,
           items |-> << <<args_thrift_spec[x + 1].name, "=">>
                        \o Repr(varargs[x + 1]) >> \o rest.items]

RECURSIVE VarargsGen(_, _, _)
\* varargs_gen, consumed from index x on: args_thrift_spec[1 + x][2] is an
\* IndexError past the end of the tuple and a TypeError on a None entry
VarargsGen(args_thrift_spec, varargs, x) ==
  IF x >= Len(varargs) THEN [err |-> "none", items |-> <<>>]
  ELSE IF (1 + x) + 1 > Len(args_thrift_spec)
  THEN [err |-> "IndexError", items |-> <<>>]
  ELSE IF args_thrift_spec[(1 + x) + 1].isNone
  THEN [err |-> "TypeError", items |-> <<>>]
  ELSE LET rest == VarargsGen(args_thrift_spec, varargs, x + 1)
       IN [err |-> rest.err,
           items |-> << <<args_thrift_spec[(1 + x) + 1].name, "=">>
                        \o Repr(varargs[x + 1]) >> \o rest.items]

\* kwargs_gen = '='.join(<generator of (key, repr(value)) tuples>): join is
\* applied to the tuples themselves, a TypeError as soon as there is one;
\* without named arguments it is the empty string
KwargsGen(kwargs) ==
  IF kwargs = <<>> THEN [err |-> "none", items |-> <<>>]
  ELSE [err |-> "TypeError", items |-> <<>>]

\* '%s(%s)' % (method.__name__, ', '.join(chain(varargs_gen, kwargs_gen)))
TraceText(w, varargs, kwargs) ==
  LET k == KwargsGen(kwargs)
      v == VarargsGen(w.spec, varargs, 0)
  IN IF k.err # "none" THEN [err |-> k.err, text |-> <<>>]
     ELSE IF v.err # "none" THEN [err |-> v.err, text |-> <<>>]
     ELSE [err |-> "none",
           text |-> w.name \o <<"(">> \o Join(v.items \o k.items, ", ")
                    \o <<")">>]

\* ' -> %r' % result
ReturnText(result) == <<" -> ">> \o Repr(result)

(***************************************************************************)
(* sys.stdout under the print statement of Python 2: "print x," leaves the *)
(* line open and makes the next item start with a space (softspace).       *)
(***************************************************************************)
SoftSpace(o) == IF o # <<>> /\ ~o[Len(o)].eol THEN <<" ">> ELSE <<>>

\* print text,
PrintComma(o, id, text) ==
  Append(o, [call |-> id, text |-> SoftSpace(o) \o text, eol |-> FALSE])

\* print text
PrintLine(o, id, text) ==
  Append(o, [call |-> id, text |-> SoftSpace(o) \o text, eol |-> TRUE])

\* print
PrintNewline(o, id) == Append(o, [call |-> id, text |-> <<>>, eol |-> TRUE])

(***************************************************************************)
(* State.                                                                  *)
(***************************************************************************)
VARIABLES
  pc,              \* position of main
  verbose, return_values, tracing,   \* the module globals
  buffered,        \* local of main
  arguments,       \* local of main: hostname and ports of docopt's dictionary
  client_type,     \* the loaded service module
  error,           \* the exception in flight, "none" if none
  sock,            \* backend transport: "none", "made", "open", "closed"
  opens, closes,   \* calls of transport.open() and transport.close()
  opened,          \* outcome of transport.open(): "no", "ok", "failed"
  framing,         \* framing of the backend side and of the listening side
  resolved,        \* whether get_interface has been attempted
  proxy,           \* the proxy object, once built
  processor,       \* whether processor_type(proxy) has been constructed
  listening,       \* whether the listening socket is bound
  out,             \* sys.stdout
  cur,             \* the call being handled by a forwarding delegate
  handled          \* number of calls handled so far

vars == <<pc, verbose, return_values, tracing, buffered, arguments,
          client_type, error,
          sock, opens, closes, opened, framing, resolved, proxy,
          processor, listening, out, cur, handled>>

flags == <<verbose, return_values, tracing, buffered, arguments, client_type>>
conn == <<sock, opens, closes, opened>>
built == <<resolved, proxy, processor, listening>>
calls == <<cur, handled>>

NoOutcome == [kind |-> "none", v |-> ""]
Return(v) == [kind |-> "return", v |-> v]
Raise(e) == [kind |-> "raise", v |-> e]

NoCall ==
  [id |-> 0, name |-> <<>>, varargs |-> <<>>, kwargs |-> <<>>,
   pcw |-> "idle", invoked |-> 0, bargs |-> <<>>, bkwargs |-> <<>>,
   bres |-> NoOutcome, res |-> NoOutcome]

NoProxy == [built |-> FALSE, methods |-> EmptyDict]

\* --hostname and its default
Hostnames == {"127.0.0.1", "backend"}

NoArguments == [hostname |-> "", listen_port |-> 0, client_port |-> 0]

\* module level, lines 22-25
Init ==
  /\ pc = "start"
  /\ verbose = FALSE /\ return_values = FALSE /\ tracing = TRUE
  /\ buffered = FALSE
  /\ arguments = NoArguments
  /\ client_type \in Services
  /\ error = "none"
  /\ sock = "none" /\ opens = 0 /\ closes = 0 /\ opened = "no"
  /\ framing = [client |-> "none", server |-> "none",
                clientProtocol |-> "none", serverProtocol |-> "none"]
  /\ resolved = FALSE
  /\ proxy = NoProxy
  /\ processor = FALSE
  /\ listening = FALSE
  /\ out = <<>>
  /\ cur = NoCall
  /\ handled = 0

(***************************************************************************)
(* main, lines 110-129: the flags and the service module.                  *)
(***************************************************************************)
Main_Args ==
  /\ pc = "start"
  /\ \E h \in Hostnames :
       arguments' = [hostname |-> h, listen_port |-> 9090,
                     client_port |-> 9091]
  /\ \E v \in BOOLEAN, r \in BOOLEAN, b \in BOOLEAN, notrace \in BOOLEAN :
       /\ verbose' = v
       /\ return_values' = r
       /\ buffered' = b
       /\ tracing' = ~notrace
       /\ out' = IF v /\ b
                 THEN PrintLine(PrintLine(out, 0, <<"arguments">>), 0,
                                <<"Using buffered transport">>)
                 ELSE PrintLine(out, 0, <<"arguments">>)
  /\ pc' = "mc_socket"
  /\ UNCHANGED <<client_type, error, conn, framing, built, calls>>

(***************************************************************************)
(* make_client, lines 98-108.                                              *)
(***************************************************************************)
\* line 100, before the try statement
MC_Socket ==
  /\ pc = "mc_socket"
  /\ \/ /\ sock' = "made"
        /\ pc' = "mc_wrap"
        /\ UNCHANGED error
     \/ /\ error' = "SocketError"
        /\ pc' = "exit"
        /\ UNCHANGED sock
  /\ UNCHANGED <<flags, opens, closes, opened, framing, built, out, calls>>

\* line 101, before the try statement
MC_Wrap ==
  /\ pc = "mc_wrap"
  /\ \/ /\ framing' = [framing EXCEPT
                         !.client = IF buffered THEN "buffered" ELSE "framed"]
        /\ pc' = "mc_protocol"
        /\ UNCHANGED error
     \/ /\ error' = "WrapError"
        /\ pc' = "exit"
        /\ UNCHANGED framing
  /\ UNCHANGED <<flags, conn, built, out, calls>>

\* line 103, inside the try statement
MC_Protocol ==
  /\ pc = "mc_protocol"
  /\ \/ /\ framing' = [framing EXCEPT !.clientProtocol = "binary"]
        /\ pc' = "mc_client"
        /\ UNCHANGED error
     \/ /\ error' = "ProtocolError"
        /\ pc' = "mc_finally"
        /\ UNCHANGED framing
  /\ UNCHANGED <<flags, conn, built, out, calls>>

\* line 104
MC_Client ==
  /\ pc = "mc_client"
  /\ \/ /\ pc' = "mc_open"
        /\ UNCHANGED error
     \/ /\ error' = "ClientError"
        /\ pc' = "mc_finally"
  /\ UNCHANGED <<flags, conn, framing, built, out, calls>>

\* a make_client that calls transport.open() outside the try statement
MC_Open_Unprotected ==
  /\ pc = "mc_open"
  /\ opens' = opens + 1
  /\ \/ /\ sock' = "open"
        /\ opened' = "ok"
        /\ pc' = "make_proxy"
        /\ UNCHANGED error
     \/ /\ error' = "TTransportException"
        /\ opened' = "failed"
        /\ pc' = "exit"
        /\ UNCHANGED sock
  /\ UNCHANGED <<flags, closes, framing, built, out, calls>>

\* a make_client that goes on to the with-body when transport.open() fails
MC_Open_Ignored ==
  /\ pc = "mc_open"
  /\ opens' = opens + 1
  /\ \/ /\ sock' = "open"
        /\ opened' = "ok"
     \/ /\ opened' = "failed"
        /\ UNCHANGED sock
  /\ pc' = "make_proxy"
  /\ UNCHANGED <<flags, error, closes, framing, built, out, calls>>

\* lines 105-106: transport.open(), then the with-body runs
MC_Open ==
  /\ pc = "mc_open"
  /\ opens' = opens + 1
  /\ \/ /\ sock' = "open"
        /\ opened' = "ok"
        /\ pc' = "make_proxy"
        /\ UNCHANGED error
     \/ /\ error' = "TTransportException"
        /\ opened' = "failed"
        /\ pc' = "mc_finally"
        /\ UNCHANGED sock
  /\ UNCHANGED <<flags, closes, framing, built, out, calls>>

\* a make_client whose cleanup does not close the transport
MC_Finally_NoClose ==
  /\ pc = "mc_finally"
  /\ pc' = "exit"
  /\ UNCHANGED <<flags, error, conn, framing, built, out, calls>>

\* lines 107-108: the finally clause; the exception in flight, if any, goes on
MC_Finally ==
  /\ pc = "mc_finally"
  /\ closes' = closes + 1
  /\ sock' = "closed"
  /\ pc' = "exit"
  /\ UNCHANGED <<flags, error, opens, opened, framing, built, out, calls>>

(***************************************************************************)
(* main, lines 131-141: the body of the with statement.                    *)
(***************************************************************************)
\* line 131
Main_MakeProxy ==
  /\ pc = "make_proxy"
  /\ resolved' = TRUE
  /\ LET p == make_proxy(client_type)
     IN IF p.err # "none"
        THEN /\ error' = p.err
             /\ pc' = "mc_finally"
             /\ UNCHANGED proxy
        ELSE /\ proxy' = [built |-> TRUE, methods |-> p.methods]
             /\ pc' = "verbose"
             /\ UNCHANGED error
  /\ UNCHANGED <<flags, conn, framing, processor, listening, out, calls>>

RECURSIVE PrintMethods(_, _)
PrintMethods(o, items) ==
  IF items = <<>> THEN o
  ELSE PrintMethods(PrintLine(o, 0, Head(items).name \o <<" proxy for ">>
                                      \o Head(items).name),
                    Tail(items))

\* lines 132-134
Main_Verbose ==
  /\ pc = "verbose"
  /\ out' = IF verbose
            THEN PrintMethods(out, Iterate(get_service_methods(client_type)).items)
            ELSE out
  /\ pc' = "processor"
  /\ UNCHANGED <<flags, error, conn, framing, built, calls>>

\* line 135
Main_Processor ==
  /\ pc = "processor"
  /\ \/ /\ processor' = TRUE
        /\ pc' = "server"
        /\ UNCHANGED error
     \/ /\ error' = "ProcessorError"
        /\ pc' = "mc_finally"
        /\ UNCHANGED processor
  /\ UNCHANGED <<flags, conn, framing, resolved, proxy, listening, out, calls>>

\* lines 136-140
\* a server side that is always length-framed
Main_Server_Framed ==
  /\ pc = "server"
  /\ framing' = [framing EXCEPT !.server = "framed",
                                !.serverProtocol = "binary"]
  /\ pc' = "serve"
  /\ UNCHANGED <<flags, error, conn, built, out, calls>>

Main_Server ==
  /\ pc = "server"
  /\ framing' = [framing EXCEPT
                   !.server = IF buffered THEN "buffered" ELSE "framed",
                   !.serverProtocol = "binary"]
  /\ pc' = "serve"
  /\ UNCHANGED <<flags, error, conn, built, out, calls>>

\* line 141, server.serve(): the listening socket is bound first
Serve_Listen ==
  /\ pc = "serve"
  /\ \/ /\ listening' = TRUE
        /\ pc' = "serving"
        /\ UNCHANGED error
     \/ /\ error' = "BindError"
        /\ pc' = "mc_finally"
        /\ UNCHANGED listening
  /\ UNCHANGED <<flags, conn, framing, resolved, proxy, processor, out, calls>>

\* serve() is left only by an exception that the server does not handle
Serve_Fatal ==
  /\ pc = "serving"
  /\ error' = "KeyboardInterrupt"
  /\ pc' = "mc_finally"
  /\ UNCHANGED <<flags, conn, framing, built, out, calls>>

(***************************************************************************)
(* A call handled by a forwarding delegate: wrapper, lines 58-70.  The     *)
(* server hands calls to the proxy one at a time.                          *)
(***************************************************************************)
RECURSIVE Tuples(_)
\* the argument tuples of at most n values
Tuples(n) ==
  IF n = 0 THEN {<<>>}
  ELSE Tuples(n - 1) \cup
       {Append(t, a) : t \in {u \in Tuples(n - 1) : Len(u) = n - 1},
                       a \in ArgValues}

\* the named arguments of a call, in the order of kwargs.iteritems()
KwargSets == {<<>>, << <<"message", "hi">> >>}

\* lines 58-66: the delegate is entered and writes the pre-call trace
Wrapper_Trace ==
  /\ pc = "serving"
  /\ cur.pcw = "idle"
  /\ handled < MaxCalls
  /\ \E name \in DOMAIN proxy.methods, varargs \in Tuples(MaxArgs),
        kwargs \in KwargSets :
       LET c == [NoCall EXCEPT !.id = handled + 1, !.name = name,
                               !.varargs = varargs, !.kwargs = kwargs]
           t == TraceText(proxy.methods[name], varargs, kwargs)
       IN IF ~tracing
          THEN /\ cur' = [c EXCEPT !.pcw = "invoke"]
               /\ UNCHANGED out
          ELSE IF t.err # "none"
          THEN /\ cur' = [c EXCEPT !.pcw = "done", !.res = Raise(t.err)]
               /\ UNCHANGED out
          ELSE /\ cur' = [c EXCEPT !.pcw = "invoke"]
               /\ out' = IF ~return_values
                         THEN PrintNewline(PrintComma(out, c.id, t.text), c.id)
                         ELSE PrintComma(out, c.id, t.text)
  /\ UNCHANGED <<pc, flags, error, conn, framing, built, handled>>

\* line 67: result = method(*varargs, **kwargs); an exception of the backend
\* method leaves the wrapper as it is
Wrapper_Invoke ==
  /\ pc = "serving"
  /\ cur.pcw = "invoke"
  /\ \E o \in {Return(v) : v \in Results} \cup {Raise(e) : e \in BackendErrors} :
       cur' = [cur EXCEPT !.invoked = @ + 1,
                          !.bargs = cur.varargs,
                          !.bkwargs = cur.kwargs,
                          !.bres = o,
                          !.res = IF o.kind = "raise" THEN o ELSE @,
                          !.pcw = IF o.kind = "raise" THEN "done" ELSE "return"]
  /\ UNCHANGED <<pc, flags, error, conn, framing, built, out, handled>>

\* a wrapper that forgets to return the result
Wrapper_Return_Dropped ==
  /\ pc = "serving"
  /\ cur.pcw = "return"
  /\ out' = IF tracing /\ return_values
            THEN PrintLine(out, cur.id, ReturnText(cur.bres.v))
            ELSE out
  /\ cur' = [cur EXCEPT !.res = Return(NoneV), !.pcw = "done"]
  /\ UNCHANGED <<pc, flags, error, conn, framing, built, handled>>

\* a wrapper whose suffix depends on return_values alone
Wrapper_Return_Untested ==
  /\ pc = "serving"
  /\ cur.pcw = "return"
  /\ out' = IF return_values
            THEN PrintLine(out, cur.id, ReturnText(cur.bres.v))
            ELSE out
  /\ cur' = [cur EXCEPT !.res = cur.bres, !.pcw = "done"]
  /\ UNCHANGED <<pc, flags, error, conn, framing, built, handled>>

\* a wrapper that uses its global declaration to reset return_values
Wrapper_Return_Resetting ==
  /\ pc = "serving"
  /\ cur.pcw = "return"
  /\ out' = IF tracing /\ return_values
            THEN PrintLine(out, cur.id, ReturnText(cur.bres.v))
            ELSE out
  /\ cur' = [cur EXCEPT !.res = cur.bres, !.pcw = "done"]
  /\ return_values' = FALSE
  /\ UNCHANGED <<pc, verbose, tracing, buffered, arguments, client_type,
                 error, conn, framing, built, handled>>

\* lines 68-70
Wrapper_Return ==
  /\ pc = "serving"
  /\ cur.pcw = "return"
  /\ out' = IF tracing /\ return_values
            THEN PrintLine(out, cur.id, ReturnText(cur.bres.v))
            ELSE out
  /\ cur' = [cur EXCEPT !.res = cur.bres, !.pcw = "done"]
  /\ UNCHANGED <<pc, flags, error, conn, framing, built, handled>>

\* the server writes the response (or drops the connection) and goes on to
\* the next request
Serve_Respond ==
  /\ pc = "serving"
  /\ cur.pcw = "done"
  /\ cur' = NoCall
  /\ handled' = handled + 1
  /\ UNCHANGED <<pc, flags, error, conn, framing, built, out>>

Next ==
  \/ Main_Args
  \/ MC_Socket
  \/ MC_Wrap
  \/ MC_Protocol
  \/ MC_Client
  \/ MC_Open
  \/ MC_Finally
  \/ Main_MakeProxy
  \/ Main_Verbose
  \/ Main_Processor
  \/ Main_Server
  \/ Serve_Listen
  \/ Serve_Fatal
  \/ Wrapper_Trace
  \/ Wrapper_Invoke
  \/ Wrapper_Return
  \/ Serve_Respond

Spec == Init /\ [][Next]_vars

TypeOK ==
  /\ pc \in {"start", "mc_socket", "mc_wrap", "mc_protocol", "mc_client",
             "mc_open", "mc_finally", "make_proxy", "verbose", "processor",
             "server", "serve", "serving", "exit"}
  /\ {verbose, return_values, tracing, buffered} \subseteq BOOLEAN
  /\ client_type \in Services
  /\ sock \in {"none", "made", "open", "closed"}
  /\ opens \in 0..1 /\ closes \in 0..1
  /\ opened \in {"no", "ok", "failed"}
  /\ handled \in 0..MaxCalls
  /\ cur.pcw \in {"idle", "invoke", "return", "done"}

(***************************************************************************)
(* Properties.                                                             *)
(***************************************************************************)
\* the try statement of make_client has been entered: lines 100 and 101 have
\* built the transport
TryEntered == framing.client # "none"

C2_Transparent ==
  /\ cur.invoked <= 1
  /\ cur.invoked = 1 =>
       cur.bargs = cur.varargs /\ cur.bkwargs = cur.kwargs
  /\ cur.pcw = "done" /\ cur.invoked = 1 => cur.res = cur.bres
  /\ cur.pcw = "done" /\ cur.invoked = 0 => cur.res.kind = "raise"

C2_Witness ==
  /\ cur.pcw = "done" /\ cur.invoked = 1
  /\ tracing /\ return_values
  /\ cur.varargs # <<>>
  /\ cur.res = Return("hi")

\* C3: tracing is purely observational: a call is forwarded with tracing on
\* as it is with tracing off, when the backend method is invoked once with
\* the arguments received and its result or failure is what the caller gets.
C3_TracingObservational ==
  cur.pcw = "done" =>
    /\ cur.invoked = 1
    /\ cur.bargs = cur.varargs /\ cur.bkwargs = cur.kwargs
    /\ cur.res = cur.bres

\* the given type is not the interface and has no direct supertype named
\* Iface
NoInterface(client) ==
  /\ client.className # "Iface"
  /\ \A i \in 1..Len(client.bases) : client.bases[i].name # "Iface"

\* C4: for a service type without an interface no proxy object is built, no
\* processor is constructed and the server loop is never started.
C4_NoProxyWithoutInterface ==
  NoInterface(client_type) =>
    /\ ~proxy.built
    /\ ~processor
    /\ ~listening
    /\ pc \notin {"verbose", "processor", "server", "serve", "serving"}

\* C5: for a service type without an interface the backend transport is not
\* opened (and no listener is bound) before the interface resolution has
\* been attempted.
C5_ResolutionBeforeOpen ==
  NoInterface(client_type) => (opens > 0 \/ listening => resolved)

\* the names of the interface that are not of the form __x__
NonReserved(attrs) ==
  {x \in attrs :
     ~(/\ Len(x) > 4
       /\ SubSeq(x, 1, 2) = <<"_", "_">>
       /\ SubSeq(x, Len(x) - 1, Len(x)) = <<"_", "_">>)}

\* some non-reserved method of the resolved interface has no <m>_args with a
\* thrift_spec
SchemaMissing(client) ==
  LET i == get_interface(client)
  IN /\ i.err = "none"
     /\ \E m \in NonReserved(i.iface.attrs) :
          ~i.iface.args[m].present \/ ~i.iface.args[m].hasSpec

\* C6: when a method of the interface lacks its argument schema no proxy is
\* created, no processor is constructed on one and the server loop is never
\* started; the startup ends with the error.
C6_SchemaMissingAborts ==
  SchemaMissing(client_type) =>
    /\ ~proxy.built
    /\ ~processor
    /\ ~listening
    /\ pc \notin {"verbose", "processor", "server", "serve", "serving"}
    /\ resolved => pc \in {"mc_finally", "exit"} /\ error = "AttributeError"

C6_Witness ==
  /\ client_type.name = "NoArgs"
  /\ resolved
  /\ pc = "exit" /\ error = "AttributeError"

\* C7: when transport.open() fails the process exits with that error, the
\* listening socket is never set up or bound, the server loop never starts,
\* and the transport is closed before the exit.
C7_OpenFailure ==
  opened = "failed" =>
    /\ error = "TTransportException"
    /\ pc \in {"mc_finally", "exit"}
    /\ ~listening /\ framing.server = "none"
    /\ ~resolved /\ ~proxy.built /\ ~processor
    /\ pc = "exit" => closes = 1 /\ sock = "closed"

C7_Witness == opened = "failed" /\ pc = "exit" /\ closes = 1

\* C8: for an interface whose non-reserved names M all have an argument
\* schema, make_proxy builds a proxy whose method dictionary is exactly M,
\* every entry the delegate of the method of that name.
C8_ExactMethodSet ==
  LET i == get_interface(client_type)
  IN i.err = "none" /\ ~SchemaMissing(client_type)
     /\ pc \in {"verbose", "processor", "server", "serve", "serving", "exit"}
     /\ resolved
     => /\ proxy.built
        /\ DOMAIN proxy.methods = NonReserved(i.iface.attrs)
        /\ \A m \in DOMAIN proxy.methods : proxy.methods[m].name = m

\* the chunks that call id has written to stdout
ChunksOf(id) == SelectSeq(out, LAMBDA c : c.call = id)

\* the text of call id starts with the name of its method
NamesMethod(c) ==
  LET ch == ChunksOf(c.id)
  IN ch # <<>> /\ Len(ch[1].text) >= Len(c.name)
     /\ SubSeq(ch[1].text, 1, Len(c.name)) = c.name

\* C9: with tracing on and return-value tracing off every call writes
\* exactly one complete trace line naming the method, before the backend
\* method is invoked, hence also when the backend call fails.
C9_OneLineBeforeInvoke ==
  tracing /\ ~return_values /\ cur.pcw # "idle" =>
    /\ Len(SelectSeq(ChunksOf(cur.id), LAMBDA c : c.eol)) = 1
    /\ NamesMethod(cur)
    /\ out[Len(out)].call = cur.id /\ out[Len(out)].eol

\* a chunk is the return-value suffix of a call
IsSuffix(c) == \E j \in 1..Len(c.text) : c.text[j] = " -> "

\* C10: with tracing and return-value tracing on, over a sequence of calls,
\* the suffix of a call is written only after its backend invocation has
\* returned, and no trace line holds text of two calls.
C10_NoInterleaving ==
  tracing /\ return_values =>
    /\ \A i \in 1..Len(out) :
         IsSuffix(out[i]) /\ out[i].call = cur.id =>
           cur.invoked = 1 /\ cur.bres.kind = "return"
    /\ \A i \in 1..(Len(out) - 1) :
         ~out[i].eol => out[i + 1].call = out[i].call

\* C11: with tracing disabled no call to a forwarding delegate writes to
\* the trace sink: stdout holds what the startup wrote and nothing else,
\* whatever the number of calls, their arguments, the setting of
\* return_values and the outcome of the backend calls.
C11_NoTraceOutput ==
  ~tracing /\ pc # "start" => \A i \in 1..Len(out) : out[i].call = 0

C11_Witness ==
  /\ ~tracing /\ return_values
  /\ handled = 1
  /\ cur.pcw = "done" /\ cur.res.kind = "return"
  /\ cur.kwargs # <<>> /\ cur.varargs # <<>>

\* C13: the framing of the listening side equals the framing of the backend
\* connection, buffered under --buffered and length-framed otherwise, and
\* both sides use the binary protocol.
C13_SymmetricFraming ==
  /\ framing.client # "none" =>
       framing.client = IF buffered THEN "buffered" ELSE "framed"
  /\ framing.server # "none" =>
       /\ framing.server = framing.client
       /\ framing.server = IF buffered THEN "buffered" ELSE "framed"
       /\ framing.clientProtocol = "binary"
       /\ framing.serverProtocol = "binary"

C13_Witness ==
  /\ pc = "serving" /\ buffered
  /\ framing.client = "buffered" /\ framing.server = "buffered"

\* the schema has its fields at the contiguous positions 1..n, position 0
\* being the reserved None entry
Contiguous(spec) ==
  spec # <<>> =>
    /\ spec[1].isNone
    /\ \A j \in 2..Len(spec) : ~spec[j].isNone /\ spec[j].fid = j - 1

NumFields(spec) == IF spec = <<>> THEN 0 ELSE Len(spec) - 1

\* the field name of the schema entry at a position
LabelAt(spec, position) ==
  (CHOOSE e \in {spec[j] : j \in 1..Len(spec)} :
     ~e.isNone /\ e.fid = position).name

RECURSIVE ExpectedArgs(_, _, _)
\* the positional arguments from index i on, in call order, each labelled
\* with the field at position i + 1
ExpectedArgs(spec, varargs, i) ==
  IF i >= Len(varargs) THEN <<>>
  ELSE (IF i > 0 THEN <<", ">> ELSE <<>>)
       \o <<LabelAt(spec, i + 1), "=", "'", varargs[i + 1], "'">>
       \o ExpectedArgs(spec, varargs, i + 1)

\* the pre-call text of a call, without the space that print puts after an
\* open line
PreCallText(id) ==
  LET t == ChunksOf(id)[1].text
  IN IF t # <<>> /\ t[1] = " " THEN Tail(t) ELSE t

C15_OneOpenBackend ==
  /\ opens <= 1
  /\ \A n \in DOMAIN proxy.methods :
       proxy.methods[n].im_self = client_type.name
  /\ pc \in {"serve", "serving"} =>
       opened = "ok" /\ sock = "open" /\ closes = 0
  /\ cur.pcw # "idle" => opened = "ok" /\ opens = 1
  /\ closes > 0 => pc = "exit"
  /\ opened = "failed" => ~listening /\ pc \in {"mc_finally", "exit"}
  /\ listening => opened = "ok"

C15_Witness ==
  /\ pc = "serving" /\ sock = "open" /\ opens = 1
  /\ handled = 1 /\ cur.invoked = 1
  /\ DOMAIN proxy.methods # {}

\* C16: the configuration (tracing, return_values, verbose, buffered,
\* hostname, ports) is assigned only by the startup of main, before the
\* server loop; no later step, and no call to a delegate whether it succeeds
\* or fails, changes it.
C16_ConfigurationFixed ==
  [][pc # "start" =>
       /\ tracing' = tracing /\ return_values' = return_values
       /\ verbose' = verbose /\ buffered' = buffered
       /\ arguments' = arguments]_vars

C16_Witness ==
  /\ pc = "serving" /\ handled = 1
  /\ cur.pcw = "done" /\ cur.res.kind = "raise" /\ cur.invoked = 1
  /\ ~tracing /\ return_values /\ arguments.hostname = "backend"

====
